---- MODULE Spec2Model ----
(***************************************************************************)
(* ESPSync protocol engine (src/src/ESPSync.cpp): the byte-level receive   *)
(* state machine ProcessByte, the checksum routines, the transmit framer   *)
(* and the six command handlers, driven by a host that sends one byte      *)
(* sequence over the serial stream.  Storage (SPIFFS) and the clock are    *)
(* the external collaborators; their refusals are nondeterministic.        *)
(***************************************************************************)
EXTENDS Integers, Sequences, FiniteSets, TLC

(* ------------------------------------------------------------------ *)
(* Program constants                                                    *)
(* ------------------------------------------------------------------ *)
STX == 2
CMN_MAX == 31
ACK == 6
NAK == 21
NAK_TIMEOUT == 33
NAK_CHKSUM == 34
NAK_FORMAT == 35
NAK_FSERR == 36
NAK_FNOTF == 37
NAK_FNAMERR == 38
NAK_FSIZERR == 39
NAK_FEXISTS == 40
CMD_SET_TIME == 96
CMD_FORMAT == 97
CMD_LIST == 98
CMD_REMOVE == 99
CMD_RENAME == 100
CMD_FILE == 101
RPL_TIME_SET == 112
RPL_FORMATED == 113
RPL_LISTING == 114
RPL_REMOVED == 115
RPL_RECEIVED == 117
RXSTATE_WAIT_STX == 0
RXSTATE_WAIT_CMN == 1
RXSTATE_WAIT_FUN == 2
RXSTATE_WAIT_SIZ_HI == 3
RXSTATE_WAIT_SIZ_MD == 4
RXSTATE_WAIT_SIZ_LO == 5
RXSTATE_WAIT_CHK_HI == 6
RXSTATE_WAIT_CHK_LO == 7
RXSTATE_WAIT_DATA == 8
RXSTATE_WAIT_CHK2_HI == 9
RXSTATE_WAIT_CHK2_LO == 10
CSUM_SKIP == 0
CSUM_FLETCHER16 == 1
CSUM_ADLER32 == 2
TEMP_BUFFER_SIZE == 70
MOD_ADLER32 == 65521

(* "///TEMP", the name of the temporary upload file *)
TEMP_NAME == <<47, 47, 47, 84, 69, 77, 80>>

(* ------------------------------------------------------------------ *)
(* Bounds of the model (values the environment supplies)                *)
(* ------------------------------------------------------------------ *)
\* fs_info.pageSize: the chunk size of the File-Receive payload loop
PageSize == 4
\* fs_info.totalBytes and fs_info.maxPathLength of the storage backend
TotalBytes == 1000
MaxPathLength == 32
\* number of spare bytes the host may send after a frame (bytes of the next
\* frame arriving back to back)
MaxTrail == 7

(* ------------------------------------------------------------------ *)
(* Fixed-width arithmetic                                               *)
(* ------------------------------------------------------------------ *)
U8(x) == (x + 65536) % 256
U16(x) == (x + 65536) % 65536
\* a uint32_t that may exceed 31 bits is kept as its two 16-bit halves
W32(hi16, lo16) == [hi |-> hi16, lo |-> lo16]
\* its four bytes, most significant first
Bytes32(w) == <<w.hi \div 256, w.hi % 256, w.lo \div 256, w.lo % 256>>
\* BYTEAT(value,pos) ((value >> pos) & 0xFF), pos a multiple of 8
BYTEAT(value, pos) == (value \div (2 ^ pos)) % 256
\* the four bytes NBO32 stores, most significant first
NBO32(value) == <<BYTEAT(value, 24), BYTEAT(value, 16), BYTEAT(value, 8), BYTEAT(value, 0)>>
RANGE_CHK(x, minx, maxx) == (x - minx) <= (maxx - minx)
RX_CMN_tx(X) == U8(X - 64)
RX_CMN(X) == U8(X - 32)
TX_CMN_rx(X) == X + 32
TX_CMN(X) == X + 64

(* ------------------------------------------------------------------ *)
(* Checksums                                                            *)
(* ------------------------------------------------------------------ *)
\* void fletcher16(uint16_t* csum, uint8_t byte): the last line combines the
\* two lanes with the logical || , so the stored value is 0 or 1.
fletcher16_bitor(csum, byte) ==
    LET sum1 == U8(csum + byte)
        sum2 == U8((csum \div 256) + sum1)
    IN  sum2 * 256 + sum1
fletcher16(csum, byte) ==
    LET sum1 == U8(csum + byte)
        sum2 == U8((csum \div 256) + sum1)
    IN  IF (sum2 * 256 # 0) \/ (sum1 # 0) THEN 1 ELSE 0

\* void adler32(uint16_t* csum_hi, uint16_t* csum_lo, uint8_t byte)
adler32(hi, lo, byte) ==
    LET nlo == (lo + byte) % MOD_ADLER32
        nhi == (hi + nlo) % MOD_ADLER32
    IN  [hi |-> nhi, lo |-> nlo]

\* void adler32(uint32_t *csum, uint8_t byte): csum_lo and csum_hi are
\* uninitialised locals; ghi/glo are the values they happen to hold.  The
\* incoming *csum is never read; the result is (csum_hi << 16) | csum_lo.
adler32_word(ghi, glo, byte) ==
    LET r == adler32(ghi, glo, byte)
    IN  W32(r.hi, r.lo)

\* values an uninitialised 16-bit object may hold
GarbageU16 == {0, 1, 65535}
\* values the member _csum_hi, which the constructor does not set, may hold;
\* 0x00E0 and the tag byte 0x20 add up to 0 in the low byte
GarbageCsum == GarbageU16 \cup {224}
\* values an uninitialised byte of the heap buffer may hold
GarbageU8 == {0, 165}

(* ------------------------------------------------------------------ *)
(* State                                                                *)
(* ------------------------------------------------------------------ *)
VARIABLES
    streamRef,   \* _streamRef # NULL
    rxstate,     \* _rxstate
    chk_mode,    \* _chk_mode
    csum_hi,     \* _csum_hi
    csum_lo,     \* _csum_lo
    this_cmn,    \* _this_cmn
    this_fun,    \* _this_fun
    this_size,   \* _this_size
    data_size,   \* _data_size
    dbuf,        \* _dbuf[0 .. TEMP_BUFFER_SIZE-1]
    pc,          \* "idle", or the read PROCESS_FileRX is blocked in
    rx_error,    \* PROCESS_FileRX locals
    nsiz,
    rx_size,
    csum,
    chk_pos,     \* which of the 4 trailing checksum bytes is read next
    rxfile,      \* TRUE when the temporary file was opened for writing
    files,       \* storage: name -> contents, for the files that exist
    clock,       \* the device clock: the struct tm last handed to mktime
                 \* (all zero while the clock was never set)
    feed,        \* bytes the host has sent and the engine has not consumed
    tx,          \* bytes written to the stream
    trace,       \* the engine's visible events, in order
    hdr,         \* history: bytes of the header being / last scanned
    body,        \* history: bytes consumed after the last accepted header
    files0,      \* history: storage when the last header was accepted
    cleanup      \* history: outcome of the last File-Receive cleanup

vars == <<streamRef, rxstate, chk_mode, csum_hi, csum_lo, this_cmn, this_fun,
          this_size, data_size, dbuf, pc, rx_error, nsiz, rx_size, csum,
          chk_pos, rxfile, files, clock, feed, tx, trace, hdr, body, files0,
          cleanup>>

(* ------------------------------------------------------------------ *)
(* Storage collaborator (SPIFFS)                                        *)
(* ------------------------------------------------------------------ *)
NoFiles == [n \in {} |-> <<>>]
exists(fs, name) == name \in DOMAIN fs
\* the storage after a successful remove / rename / create-or-truncate / append
Without(fs, name) == [n \in (DOMAIN fs) \ {name} |-> fs[n]]
With(fs, name, data) == [n \in (DOMAIN fs) \cup {name} |-> IF n = name THEN data ELSE fs[n]]
\* SPIFFS.remove(name): FALSE when the file is absent or the storage refuses
remove_ok(fs, name, ok) == exists(fs, name) /\ ok
remove(fs, name, ok) == IF remove_ok(fs, name, ok) THEN Without(fs, name) ELSE fs
\* SPIFFS.rename(old, new): FALSE when old is absent, new exists or the
\* storage refuses
rename_ok(fs, old, new, ok) == exists(fs, old) /\ ~exists(fs, new) /\ ok
rename(fs, old, new, ok) ==
    IF rename_ok(fs, old, new, ok) THEN With(Without(fs, old), new, fs[old]) ELSE fs
RECURSIVE SumLen(_, _)
SumLen(fs, names) ==
    IF names = {} THEN 0
    ELSE LET n == CHOOSE x \in names : TRUE
         IN  Len(fs[n]) + SumLen(fs, names \ {n})
\* fs_info.usedBytes
UsedBytes(fs) == SumLen(fs, DOMAIN fs)

(* ------------------------------------------------------------------ *)
(* The small-message buffer                                             *)
(* ------------------------------------------------------------------ *)
BufIdx == 0 .. (TEMP_BUFFER_SIZE - 1)
\* _dbuf[i] = v; a store outside the buffer is not modelled as a change of it
WrBuf(d, i, v) == IF i \in BufIdx THEN [d EXCEPT ![i] = v] ELSE d
\* _dbuf[i]; a load outside the buffer yields an indeterminate byte
RdBuf(d, i) == IF i \in BufIdx THEN d[i] ELSE 0
\* store the bytes of seq at _dbuf[at], _dbuf[at+1], ...
WrSeq(d, at, seq) ==
    [i \in BufIdx |-> IF i >= at /\ i < at + Len(seq) THEN seq[i - at + 1] ELSE d[i]]
\* the C string starting at _dbuf[from]: the bytes before the first 0x00
CStr(d, from) ==
    LET nuls == {i \in BufIdx : i >= from /\ d[i] = 0}
        end == IF nuls = {} THEN TEMP_BUFFER_SIZE
               ELSE CHOOSE i \in nuls : \A j \in nuls : i <= j
    IN  [i \in 1 .. (end - from) |-> d[from + i - 1]]
\* the strings that may be found in the memory behind the buffer
OutsideStrings == {<<>>, <<98>>, <<99>>}
\* the indexes of _dbuf that PROCESS_Remove and PROCESS_Rename load from
\* and store to before they look at the storage: nlen + 1 and _this_size - 2
NameIndexes(d, size) == {d[0] + 1, size - 2}
\* _dbuf[0 .. n-1] as a sequence
BufPrefix(d, n) == [i \in 1 .. n |-> RdBuf(d, i - 1)]

(* ------------------------------------------------------------------ *)
(* Transmit framer                                                      *)
(* ------------------------------------------------------------------ *)
\* an entry of trace
TxEv(func, size_opt) == [ev |-> "tx", fun |-> func, size |-> size_opt]
FormatEv == [ev |-> "format", fun |-> 0, size |-> 0]
SetTimeEv == [ev |-> "settime", fun |-> 0, size |-> 0]

\* fold fletcher16 over the bytes written by TX(X,csum), starting from csum
RECURSIVE TX_fold(_, _)
TX_fold(c, bytes) ==
    IF bytes = <<>> THEN c ELSE TX_fold(fletcher16(c, Head(bytes)), Tail(bytes))

\* TX_CSUM(csum): write(csum>>8); write(csum&0xFF), each write takes a uint8_t
TX_CSUM(c) == <<U8(c \div 256), c % 256>>

\* TX_CSUM32(csum) { TX_CSUM(csum>>16); TX_CSUM(csum&0xFFFF);} : the macro
\* arguments are pasted unparenthesised, so the second pair expands to
\* write(csum&0xFFFF>>8); write(csum&0xFFFF&0xFF), both csum & 0xFF.
TX_CSUM32(c) == <<Bytes32(c)[1], Bytes32(c)[2], Bytes32(c)[4], Bytes32(c)[4]>>

\* the eight bytes TX_Header writes when _this_cmn is cmn
TX_HeaderBytes(cmn, func, size_opt) ==
    LET span == <<STX, U8(TX_CMN(cmn)), func, BYTEAT(size_opt, 16),
                  BYTEAT(size_opt, 8), BYTEAT(size_opt, 0)>>
    IN  span \o TX_CSUM(TX_fold(0, span))

\* void ESPSync::TX_Header(uint8_t func, uint32_t size_opt)
TX_Header(func, size_opt) ==
    IF streamRef
    THEN [out |-> TX_HeaderBytes(this_cmn, func, size_opt), evs |-> <<TxEv(func, size_opt)>>]
    ELSE [out |-> <<>>, evs |-> <<>>]

\* void ESPSync::TX_NAK(uint8_t code)
TX_NAK(code) == TX_Header(NAK, code * 65536 + 42330)

\* void ESPSync::TX_ACK(uint32_t timeout); TX_Header sends the low 24 bits of
\* size_opt, and ((timeout-1) << 8) has the low 16 bits of timeout-1 there
TX_ACK_wrapping(timeout) == TX_Header(ACK, U16(timeout - 1) * 256 + 90)
TX_ACK(timeout) ==
    IF timeout > 65536
    THEN TX_Header(ACK, 16777050)
    ELSE TX_Header(ACK, U16(timeout - 1) * 256 + 90)

\* void ESPSync::TX_DataChunk(uint32_t *chk, uint8_t size): the bytes written,
\* and *chk afterwards (chk unchanged when nothing is sent)
TX_DataChunk(d, chk, size, ghi, glo) ==
    IF streamRef /\ size # 0
    THEN [out |-> BufPrefix(d, size), chk |-> adler32_word(ghi, glo, RdBuf(d, size - 1))]
    ELSE [out |-> <<>>, chk |-> chk]

\* void ESPSync::TX_DataBuf(uint8_t func, uint8_t size)
TX_DataBuf(d, func, size, ghi, glo) ==
    IF streamRef
    THEN LET h == TX_Header(func, size + 4)
             c == TX_DataChunk(d, W32(0, 0), size, ghi, glo)
         IN  [out |-> h.out \o c.out \o TX_CSUM32(c.chk), evs |-> h.evs]
    ELSE [out |-> <<>>, evs |-> <<>>]

(* ------------------------------------------------------------------ *)
(* Command handlers: each yields the buffer, storage and clock it       *)
(* leaves, the bytes it writes and the events it causes                 *)
(* ------------------------------------------------------------------ *)
Result(d, fs, clk, t) == [dbuf |-> d, files |-> fs, clock |-> clk, out |-> t.out, evs |-> t.evs]

\* void ESPSync::PROCESS_SetTime(void)
PROCESS_SetTime(d, fs, clk) ==
    IF /\ RANGE_CHK(d[0], 1, 31)
       /\ RANGE_CHK(d[1], 1, 12)
       /\ RANGE_CHK(d[3], 0, 23)
       /\ RANGE_CHK(d[4], 0, 59)
       /\ RANGE_CHK(d[5], 0, 59)
    THEN LET tm == [tm_mday |-> d[0], tm_mon |-> d[1] - 1, tm_year |-> (2019 - 1900) + d[2],
                    tm_hour |-> d[3], tm_min |-> d[4], tm_sec |-> d[5]]
             t == TX_Header(RPL_TIME_SET, 0)
         IN  Result(d, fs, tm, [out |-> t.out, evs |-> <<SetTimeEv>> \o t.evs])
    ELSE Result(d, fs, clk, TX_NAK(NAK_FORMAT))

\* void ESPSync::PROCESS_Format(void); begin is the outcome of SPIFFS.begin()
PROCESS_Format(d, fs, clk, begin, ghi, glo) ==
    IF begin
    THEN LET fs1 == NoFiles
             d1 == WrSeq(d, 0, NBO32(TotalBytes) \o NBO32(UsedBytes(fs1))
                                  \o <<BYTEAT(MaxPathLength, 0)>>)
             a == TX_ACK(30 * 1000)
             r == TX_DataBuf(d1, RPL_FORMATED, 9, ghi, glo)
         IN  Result(d1, fs1, clk,
                    [out |-> a.out \o r.out, evs |-> a.evs \o <<FormatEv>> \o r.evs])
    ELSE Result(d, fs, clk, TX_NAK(NAK_FSERR))

\* void ESPSync::PROCESS_Remove(void); rm is whether the storage lets a file
\* be removed
PROCESS_Remove(d, fs, clk, begin, rm, ghi, glo) ==
    LET nlen == d[0]
    IN  IF ~begin THEN Result(d, fs, clk, TX_NAK(NAK_FSERR))
        ELSE LET d1 == WrBuf(WrBuf(d, nlen + 1, 0), this_size - 2, 0)
             IN  IF exists(fs, CStr(d1, 1))
                 THEN IF remove_ok(fs, CStr(d1, 0), rm)
                      THEN LET fs1 == remove(fs, CStr(d1, 0), rm)
                               d2 == WrSeq(d1, 0, NBO32(TotalBytes)
                                             \o NBO32(TotalBytes - UsedBytes(fs1)))
                           IN  Result(d2, fs1, clk, TX_DataBuf(d2, RPL_REMOVED, 10, ghi, glo))
                      ELSE Result(d1, fs, clk, TX_NAK(NAK_FSERR))
                 ELSE Result(d1, fs, clk, TX_NAK(NAK_FNOTF))

\* void ESPSync::PROCESS_Rename(void); rn is whether the storage lets a file
\* be renamed; oob is the string found at _dbuf + nlen + 1 when that address
\* lies past the buffer
PROCESS_Rename(d, fs, clk, begin, rn, oob, ghi, glo) ==
    LET nlen == d[0]
    IN  IF ~begin THEN Result(d, fs, clk, TX_NAK(NAK_FSERR))
        ELSE LET d1 == WrBuf(WrBuf(d, nlen + 1, 0), this_size - 2, 0)
                 old == CStr(d1, 1)
                 new == IF nlen + 1 \in BufIdx THEN CStr(d1, nlen + 1) ELSE oob
             IN  IF ~exists(fs, old) THEN Result(d1, fs, clk, TX_NAK(NAK_FNOTF))
                 ELSE IF exists(fs, new) THEN Result(d1, fs, clk, TX_NAK(NAK_FEXISTS))
                 ELSE IF rename_ok(fs, old, new, rn)
                      THEN LET fs1 == rename(fs, old, new, rn)
                               d2 == WrSeq(d1, 0, NBO32(TotalBytes)
                                             \o NBO32(TotalBytes - UsedBytes(fs1)))
                           IN  Result(d2, fs1, clk, TX_DataBuf(d2, RPL_REMOVED, 10, ghi, glo))
                      ELSE Result(d1, fs, clk, TX_NAK(NAK_FSERR))

\* n zero bytes (memset)
Zeros(n) == [i \in 1 .. n |-> 0]

\* the while (dir.next()) loop of PROCESS_Listing over the files not yet
\* visited: the buffer, the bytes written and the running checksum it leaves
RECURSIVE ListEntries(_, _, _, _, _, _, _, _)
ListEntries(d, fs, names, options, esize, chk, ghi, glo) ==
    IF names = {} THEN [dbuf |-> d, out |-> <<>>, chk |-> chk]
    ELSE LET n == CHOOSE x \in names : TRUE
             d1 == WrSeq(d, 0, Zeros(MaxPathLength))
             d2 == WrSeq(d1, 0, n \o <<0>>)
             d3 == WrSeq(d2, MaxPathLength, NBO32(Len(fs[n])))
             fcsum == IF fs[n] = <<>> THEN W32(ghi, glo)
                      ELSE adler32_word(ghi, glo, fs[n][Len(fs[n])])
             d4 == IF (options \div 2) % 2 = 1
                   THEN WrSeq(d3, esize - 4, Bytes32(fcsum)) ELSE d3
             c == TX_DataChunk(d4, chk, U8(esize), ghi, glo)
             rest == ListEntries(d4, fs, names \ {n}, options, esize, c.chk, ghi, glo)
         IN  [dbuf |-> rest.dbuf, out |-> c.out \o rest.out, chk |-> rest.chk]

\* void ESPSync::PROCESS_Listing(void), ESP8266 build (the ESP32 branch does
\* not compile); the local csum starts uninitialised
PROCESS_Listing(d, fs, clk, begin, ghi, glo) ==
    IF ~begin THEN Result(d, fs, clk, TX_NAK(NAK_FSERR))
    ELSE LET options == IF (d[0] \div 2) % 2 = 1 THEN 2 ELSE 0
             fcount == Cardinality(DOMAIN fs)
             esize == MaxPathLength + 4 + (IF options = 2 THEN 4 ELSE 0)
             msize == 10 + (esize * fcount) + 4
             a == TX_ACK(1000)
             h == TX_Header(RPL_LISTING, msize)
             d1 == WrSeq(d, 0, NBO32(TotalBytes) \o NBO32(TotalBytes - UsedBytes(fs))
                                  \o <<BYTEAT(MaxPathLength, 0), options>>)
             c == TX_DataChunk(d1, W32(ghi, glo), 10, ghi, glo)
             l == ListEntries(d1, fs, DOMAIN fs, options, esize, c.chk, ghi, glo)
             sum == IF streamRef THEN TX_CSUM32(l.chk) ELSE <<>>
         IN  Result(l.dbuf, fs, clk,
                    [out |-> a.out \o h.out \o c.out \o l.out \o sum,
                     evs |-> a.evs \o h.evs])

\* the file rxfile is opened on and written to: SPIFFS.open("///TEMP","w")
rxfile_direct == <<97>>
rxfile_name == TEMP_NAME

\* "BAD RX, Attempt to clean up temp file": the result of remove is ignored
Cleanup_skipped(fs, cl) == fs
Cleanup(fs, cl) == IF exists(fs, TEMP_NAME) THEN remove(fs, TEMP_NAME, cl) ELSE fs

\* PROCESS_FileRX from "Check File Name" to its end, entered with rx_error
\* err: the name check, the remove-then-rename into place, and the RECEIVED
\* reply or the cleanup and the NAK.  rm, rn: whether the storage lets the
\* destination be removed / the temporary file be renamed; cl: whether it
\* lets the temporary file be removed in the cleanup.
FileRX_End(err, d, fs, nsz, rm, rn, cl, ghi, glo) ==
    LET d1 == IF err = ACK THEN WrBuf(d, nsz, 0) ELSE d
        name == CStr(d1, 0)
        e1 == IF err = ACK /\ name # TEMP_NAME THEN NAK_FNAMERR ELSE err
        rmfail == e1 = ACK /\ exists(fs, name) /\ ~remove_ok(fs, name, rm)
        fs1 == IF e1 = ACK /\ exists(fs, name) THEN remove(fs, name, rm) ELSE fs
        e2 == IF rmfail THEN NAK_FSERR ELSE e1
        fs2 == IF e2 = ACK THEN rename(fs1, TEMP_NAME, name, rn) ELSE fs1
        e3 == IF e2 = ACK /\ ~rename_ok(fs1, TEMP_NAME, name, rn) THEN NAK_FSERR ELSE e2
    IN  IF e3 = ACK
        THEN LET d2 == WrSeq(d1, 0, NBO32(TotalBytes) \o NBO32(TotalBytes - UsedBytes(fs2)))
                 t == TX_DataBuf(d2, RPL_RECEIVED, 8, ghi, glo)
             IN  [dbuf |-> d2, files |-> fs2, out |-> t.out, evs |-> t.evs,
                  err |-> e3, cleanup |-> "none"]
        ELSE LET t == TX_NAK(e3)
             IN  [dbuf |-> d1, files |-> Cleanup(fs2, cl),
                  out |-> t.out, evs |-> t.evs, err |-> e3,
                  cleanup |-> IF ~exists(fs2, TEMP_NAME) THEN "absent"
                              ELSE IF cl THEN "removed" ELSE "refused"]

\* bool CheckMessageSizes(uint8_t func, uint32_t size)
CheckMessageSizes(func, size) ==
    \/ (func = CMD_SET_TIME) /\ (size = 8)
    \/ (func = CMD_LIST) /\ (size = 3)
    \/ (func = CMD_REMOVE) /\ (size >= 3) /\ (size <= TEMP_BUFFER_SIZE)
    \/ (func = CMD_RENAME) /\ (size >= 6) /\ (size <= TEMP_BUFFER_SIZE)

(* ------------------------------------------------------------------ *)
(* The host: the byte sequences it may send                             *)
(* ------------------------------------------------------------------ *)
Min(a, b) == IF a < b THEN a ELSE b
Prefixes(seq) == {SubSeq(seq, 1, n) : n \in 0 .. Len(seq)}
Hdr(tb, f, sz, ck) == <<STX, tb, f>> \o sz \o ck
\* a header a freshly reset engine accepts (tag 0, size < 256)
OkHdr(f, size) == Hdr(32, f, <<0, 0, size>>, <<0, 1>>)

HeaderFrames ==
    {Hdr(tb, f, sz, ck) :
        tb \in {32, 63},
        f \in {ACK, CMD_SET_TIME, CMD_FORMAT, CMD_LIST, CMD_REMOVE, CMD_RENAME, CMD_FILE},
        sz \in {<<0, 0, 0>>, <<1, 0, 0>>, <<0, 0, 90>>, <<0, 0, 3>>, <<1, 0, 8>>,
                <<0, 0, 71>>, <<0, 0, 9>>, <<0, 0, 12>>},
        ck \in {<<0, 1>>, <<0, 0>>, <<1, 1>>}}
BadTagFrames == {Hdr(tb, CMD_REMOVE, <<0, 0, 8>>, <<0, 1>>) : tb \in {0, 31, 64}}
BadFunFrames == {Hdr(32, f, <<0, 0, 8>>, <<0, 1>>) : f \in {0, NAK, 102, RPL_TIME_SET}}
\* noise: sequences without a sentinel, and noise in front of a header
NoiseFrames ==
    {<<a>> : a \in {0, 32, 99}} \cup {<<a, b>> : a \in {0, 32, 99}, b \in {0, 32, 99}}
    \cup {<<a>> \o OkHdr(CMD_FORMAT, 0) : a \in {0, 255}}
SetTimeFrames ==
    {OkHdr(CMD_SET_TIME, 8) \o <<day, mon, 0, hour, min, sec>> \o <<0, 0, 0>> :
        day \in {0, 1, 31, 32}, mon \in {0, 12, 13}, hour \in {23, 24},
        min \in {59, 60}, sec \in {59, 60}}
\* name-length bytes that point at the end of the buffer and past it
LongNameLengths == {68, 69, 200, 255}
ListFrames == {OkHdr(CMD_LIST, 3) \o <<opt, 0, 0, 0>> : opt \in {0, 2}}
RemoveFrames ==
    {OkHdr(CMD_REMOVE, 8) \o <<5, 97, 98, 99, 100, 101>> \o t :
        t \in {<<0, 0>>, <<0, 0, 0>>, <<0, 0, 1>>, <<0, 0, STX>>, <<225, 244>>,
               <<225, 244, 0>>}}
    \cup {OkHdr(CMD_REMOVE, 4) \o <<1, 97, 0, 0, 0>>}
    \cup {OkHdr(CMD_REMOVE, 4) \o <<nlen, 97, 0, 0, 0>> : nlen \in LongNameLengths}
RenameFrames ==
    {OkHdr(CMD_RENAME, 6) \o <<1, o, 1, n>> \o <<0, 0, 0>> : o \in {97, 98}, n \in {97, 98, 99}}
    \cup {OkHdr(CMD_RENAME, 6) \o <<nlen, 97, 0, 0, 0>> \o <<0, 0>> : nlen \in LongNameLengths}
\* a File frame: name, 6 timestamp bytes, 1 payload byte 0x00 and the four
\* bytes 00 01 00 01 of its Adler-32 checksum;
\* cut short anywhere (the transport closes early) or followed by the first
\* bytes of whatever the host sends next
\* frames as the transmit framer encodes them (TX_Header, or TX_DataBuf with
\* the data and the checksum bytes it writes when its uninitialised locals
\* hold g), arriving at the receiver
EchoFrames ==
    {TX_HeaderBytes(cmn, f, 0) : cmn \in {0, CMN_MAX}, f \in {ACK, CMD_FORMAT, RPL_TIME_SET}}
    \cup {TX_HeaderBytes(cmn, f, Len(data) + 4) \o data
            \o TX_CSUM32(adler32_word(g, g, data[Len(data)])) :
            cmn \in {0, CMN_MAX}, f \in {CMD_REMOVE, RPL_REMOVED},
            data \in {<<1, 97>>, <<5, 97, 98, 99, 100, 101>>}, g \in {0, 1}}
\* a header with tag 0x3F that is rejected (at its function byte or at its
\* checksum bytes), then a valid frame with tag 0x25
RetryFrames ==
    {Hdr(63, f, <<0, 0, 0>>, ck) \o Hdr(37, CMD_FORMAT, <<0, 0, 0>>, <<0, 1>>) :
        f \in {0, CMD_FORMAT}, ck \in {<<1, 1>>, <<0, 0>>}}
    \cup {Hdr(63, f, <<0, 0, 0>>, ck) \o Hdr(37, CMD_LIST, <<0, 0, 3>>, <<0, 1>>)
             \o <<0, 0, 0, 0>> :
        f \in {0, CMD_FORMAT}, ck \in {<<1, 1>>, <<0, 0>>}}
\* a FORMAT frame that is answered, then a second frame with tag 0x25
RepeatFrames ==
    {OkHdr(CMD_FORMAT, 0) \o Hdr(37, CMD_LIST, <<0, 0, 3>>, ck) :
        ck \in {<<0, 1>>, <<0, 0>>}}
FileBody(name) == <<Len(name)>> \o name \o Zeros(6) \o <<0>> \o <<0, 1, 0, 1>>
FileFrames ==
    UNION {{OkHdr(CMD_FILE, Len(FileBody(name))) \o b : b \in Prefixes(FileBody(name))}
           \cup {OkHdr(CMD_FILE, Len(FileBody(name))) \o FileBody(name) \o Zeros(k) :
                   k \in 1 .. MaxTrail}
           : name \in {<<>>, <<97>>, TEMP_NAME}}
Frames ==
    HeaderFrames \cup BadTagFrames \cup BadFunFrames \cup NoiseFrames \cup SetTimeFrames
    \cup ListFrames \cup RemoveFrames \cup RenameFrames \cup FileFrames \cup EchoFrames
    \cup RetryFrames \cup RepeatFrames

\* the storage contents the device may start with
InitialStorages ==
    {NoFiles,
     [n \in {<<97, 98, 99, 100, 101>>} |-> <<7>>],
     [n \in {<<97, 98, 99, 100, 101>>, <<5, 97, 98, 99, 100, 101>>} |->
        IF Len(n) = 5 THEN <<7>> ELSE <<8, 8>>],
     [n \in {<<97>>, <<98>>} |-> IF n = <<97>> THEN <<7>> ELSE <<8, 8>>],
     [n \in {<<97>>, TEMP_NAME} |-> IF n = <<97>> THEN <<7>> ELSE <<9>>]}

(* ------------------------------------------------------------------ *)
(* Init: the engine as the constructor leaves it (members it does not   *)
(* set hold indeterminate values; of those only _csum_hi and _dbuf are  *)
(* read before they are written), and the bytes the host will send      *)
(* ------------------------------------------------------------------ *)
Init ==
    /\ streamRef = FALSE
    /\ rxstate = RXSTATE_WAIT_STX
    /\ chk_mode = CSUM_SKIP
    /\ csum_hi \in GarbageCsum
    /\ csum_lo = 0
    /\ this_cmn = 0
    /\ this_fun = 0
    /\ this_size = 0
    /\ data_size = 0
    /\ \E g \in GarbageU8 : dbuf = [i \in BufIdx |-> g]
    /\ pc = "idle"
    /\ rx_error = ACK
    /\ nsiz = 0
    /\ rx_size = 0
    /\ csum = W32(0, 0)
    /\ chk_pos = 0
    /\ rxfile = FALSE
    /\ files \in InitialStorages
    /\ clock = [tm_mday |-> 0, tm_mon |-> 0, tm_year |-> 0,
                 tm_hour |-> 0, tm_min |-> 0, tm_sec |-> 0]
    /\ feed \in Frames
    /\ tx = <<>>
    /\ trace = <<>>
    /\ hdr = <<>>
    /\ body = <<>>
    /\ files0 = files
    /\ cleanup = "none"

\* void ESPSync::setSerial(HardwareSerial *streamObject)
setSerial ==
    /\ ~streamRef
    /\ streamRef' = TRUE
    /\ UNCHANGED <<rxstate, chk_mode, csum_hi, csum_lo, this_cmn, this_fun, this_size,
                   data_size, dbuf, pc, rx_error, nsiz, rx_size, csum, chk_pos, rxfile,
                   files, clock, feed, tx, trace, hdr, body, files0, cleanup>>

(* ------------------------------------------------------------------ *)
(* bool ESPSync::ProcessByte(uint8_t byte)                              *)
(* One action per case of the switch; each consumes the next byte the   *)
(* host sent.  Bytes are fed once the stream is attached and while no   *)
(* earlier call is still executing.                                     *)
(* ------------------------------------------------------------------ *)
Feeding(state) == streamRef /\ pc = "idle" /\ feed # <<>> /\ rxstate = state

\* the checksum update at the top of the loop
CsumHi(byte) ==
    IF chk_mode = CSUM_SKIP THEN csum_hi
    ELSE IF chk_mode = CSUM_FLETCHER16 THEN fletcher16(csum_hi, byte)
    ELSE adler32(csum_hi, csum_lo, byte).hi
CsumLo(byte) ==
    IF chk_mode = CSUM_SKIP \/ chk_mode = CSUM_FLETCHER16 THEN csum_lo
    ELSE adler32(csum_hi, csum_lo, byte).lo

fileRxLocals == <<rx_error, nsiz, rx_size, csum, chk_pos, rxfile>>

\* case RXSTATE_WAIT_STX: only the increment is guarded by the if
RX_WAIT_STX ==
    /\ Feeding(RXSTATE_WAIT_STX)
    /\ LET input == Head(feed)
       IN  /\ rxstate' = IF input = STX THEN rxstate + 1 ELSE rxstate
           /\ csum_hi' = CsumHi(input)
           /\ csum_lo' = 514
           /\ chk_mode' = CSUM_FLETCHER16
           /\ hdr' = IF input = STX THEN <<input>> ELSE hdr
           /\ trace' = IF input = STX THEN <<>> ELSE trace
           /\ body' = IF input = STX THEN <<>> ELSE body
    /\ feed' = Tail(feed)
    /\ UNCHANGED <<streamRef, this_cmn, this_fun, this_size, data_size, dbuf, pc,
                   fileRxLocals, files, clock, tx, files0, cleanup>>

\* case RXSTATE_WAIT_CMN
RX_WAIT_CMN ==
    /\ Feeding(RXSTATE_WAIT_CMN)
    /\ LET input == RX_CMN(Head(feed))
       IN  /\ csum_hi' = CsumHi(Head(feed))
           /\ csum_lo' = CsumLo(Head(feed))
           /\ IF input <= CMN_MAX
              THEN /\ this_cmn' = input
                   /\ rxstate' = rxstate + 1
                   /\ UNCHANGED chk_mode
              ELSE /\ rxstate' = RXSTATE_WAIT_STX
                   /\ chk_mode' = CSUM_SKIP
                   /\ UNCHANGED this_cmn
    /\ hdr' = Append(hdr, Head(feed))
    /\ feed' = Tail(feed)
    /\ UNCHANGED <<streamRef, this_fun, this_size, data_size, dbuf, pc, fileRxLocals,
                   files, clock, tx, trace, body, files0, cleanup>>

\* case RXSTATE_WAIT_FUN
RX_WAIT_FUN ==
    /\ Feeding(RXSTATE_WAIT_FUN)
    /\ LET input == Head(feed)
       IN  /\ csum_hi' = CsumHi(input)
           /\ csum_lo' = CsumLo(input)
           /\ IF (input = ACK) \/ ((input >= CMD_SET_TIME) /\ (input <= CMD_FILE))
              THEN /\ this_fun' = input
                   /\ rxstate' = rxstate + 1
                   /\ UNCHANGED chk_mode
              ELSE /\ rxstate' = RXSTATE_WAIT_STX
                   /\ chk_mode' = CSUM_SKIP
                   /\ UNCHANGED this_fun
    /\ hdr' = Append(hdr, Head(feed))
    /\ feed' = Tail(feed)
    /\ UNCHANGED <<streamRef, this_cmn, this_size, data_size, dbuf, pc, fileRxLocals,
                   files, clock, tx, trace, body, files0, cleanup>>

\* case RXSTATE_WAIT_SIZ_HI: _this_size = input << 16
RX_WAIT_SIZ_HI ==
    /\ Feeding(RXSTATE_WAIT_SIZ_HI)
    /\ csum_hi' = CsumHi(Head(feed))
    /\ csum_lo' = CsumLo(Head(feed))
    /\ this_size' = Head(feed) * 65536
    /\ rxstate' = rxstate + 1
    /\ hdr' = Append(hdr, Head(feed))
    /\ feed' = Tail(feed)
    /\ UNCHANGED <<streamRef, chk_mode, this_cmn, this_fun, data_size, dbuf, pc,
                   fileRxLocals, files, clock, tx, trace, body, files0, cleanup>>

\* case RXSTATE_WAIT_SIZ_MD: _this_size = input << 8 (an assignment)
RX_WAIT_SIZ_MD ==
    /\ Feeding(RXSTATE_WAIT_SIZ_MD)
    /\ csum_hi' = CsumHi(Head(feed))
    /\ csum_lo' = CsumLo(Head(feed))
    /\ this_size' = Head(feed) * 256
    /\ rxstate' = rxstate + 1
    /\ hdr' = Append(hdr, Head(feed))
    /\ feed' = Tail(feed)
    /\ UNCHANGED <<streamRef, chk_mode, this_cmn, this_fun, data_size, dbuf, pc,
                   fileRxLocals, files, clock, tx, trace, body, files0, cleanup>>

\* case RXSTATE_WAIT_SIZ_LO: _this_size |= input (the low byte of _this_size
\* is zero here, so the OR adds)
RX_WAIT_SIZ_LO ==
    /\ Feeding(RXSTATE_WAIT_SIZ_LO)
    /\ csum_hi' = CsumHi(Head(feed))
    /\ csum_lo' = CsumLo(Head(feed))
    /\ this_size' = this_size + Head(feed)
    /\ rxstate' = rxstate + 1
    /\ chk_mode' = CSUM_SKIP
    /\ hdr' = Append(hdr, Head(feed))
    /\ feed' = Tail(feed)
    /\ UNCHANGED <<streamRef, this_cmn, this_fun, data_size, dbuf, pc, fileRxLocals,
                   files, clock, tx, trace, body, files0, cleanup>>

\* case RXSTATE_WAIT_CHK_HI
RX_WAIT_CHK_HI ==
    /\ Feeding(RXSTATE_WAIT_CHK_HI)
    /\ csum_hi' = CsumHi(Head(feed))
    /\ csum_lo' = CsumLo(Head(feed))
    /\ IF Head(feed) = CsumHi(Head(feed)) \div 256
       THEN rxstate' = rxstate + 1 /\ UNCHANGED chk_mode
       ELSE rxstate' = RXSTATE_WAIT_STX /\ chk_mode' = CSUM_SKIP
    /\ hdr' = Append(hdr, Head(feed))
    /\ feed' = Tail(feed)
    /\ UNCHANGED <<streamRef, this_cmn, this_fun, this_size, data_size, dbuf, pc,
                   fileRxLocals, files, clock, tx, trace, body, files0, cleanup>>

\* what a handler that ran to completion leaves: its result r, then
Completed_stay(r) ==
    /\ dbuf' = r.dbuf
    /\ files' = r.files
    /\ clock' = r.clock
    /\ tx' = tx \o r.out
    /\ trace' = trace \o r.evs
    /\ UNCHANGED <<rxstate, chk_mode>>
\* reset_rxstate()
Completed(r) ==
    /\ dbuf' = r.dbuf
    /\ files' = r.files
    /\ clock' = r.clock
    /\ tx' = tx \o r.out
    /\ trace' = trace \o r.evs
    /\ rxstate' = RXSTATE_WAIT_STX
    /\ chk_mode' = CSUM_SKIP

\* PROCESS_FileRX leaves its reads with rx_error err: rxfile.close(), the
\* rest of the handler, then reset_rxstate() in ProcessByte
FileRX_Return(end) ==
    \E r \in {end} :
       /\ Completed([dbuf |-> r.dbuf, files |-> r.files, clock |-> clock,
                     out |-> r.out, evs |-> r.evs])
       /\ rx_error' = r.err
       /\ cleanup' = r.cleanup
       /\ pc' = "idle"
FileRX_Finish(err, d, fs, nsz) ==
    IF err = ACK
    THEN \E rm \in BOOLEAN, rn \in BOOLEAN, cl \in BOOLEAN,
            ghi \in GarbageU16, glo \in GarbageU16 :
            FileRX_Return(FileRX_End(err, d, fs, nsz, rm, rn, cl, ghi, glo))
    ELSE \E cl \in BOOLEAN :
            FileRX_Return(FileRX_End(err, d, fs, nsz, TRUE, TRUE, cl, 0, 0))

\* case RXSTATE_WAIT_CHK_LO: the header is accepted and dispatched.
\* PROCESS_FileRX starts here: it allocates its page buffer (alloc), opens the
\* temporary file for writing (opened) and then blocks in its first read.
RX_WAIT_CHK_LO ==
    /\ Feeding(RXSTATE_WAIT_CHK_LO)
    /\ hdr' = Append(hdr, Head(feed))
    /\ feed' = Tail(feed)
    /\ UNCHANGED <<streamRef, this_cmn, this_fun, this_size>>
    /\ IF Head(feed) # CsumHi(Head(feed)) % 256
       THEN /\ rxstate' = RXSTATE_WAIT_STX
            /\ chk_mode' = CSUM_SKIP
            /\ csum_hi' = CsumHi(Head(feed))
            /\ csum_lo' = CsumLo(Head(feed))
            /\ UNCHANGED <<data_size, dbuf, pc, fileRxLocals, files, clock, tx, trace,
                           body, files0, cleanup>>
       ELSE /\ csum_hi' = 0
            /\ csum_lo' = 0
            /\ body' = <<>>
            /\ files0' = files
            /\ CASE this_fun = ACK ->
                    /\ LET t == IF this_size % 256 = 90
                                THEN TX_ACK((this_size \div 256) + 1)
                                ELSE [out |-> <<>>, evs |-> <<>>]
                       IN  Completed(Result(dbuf, files, clock, t))
                    /\ UNCHANGED <<data_size, pc, fileRxLocals, cleanup>>
                 [] this_fun \in {CMD_SET_TIME, CMD_LIST, CMD_REMOVE, CMD_RENAME} ->
                    /\ IF CheckMessageSizes(this_fun, this_size)
                       THEN /\ data_size' = 0
                            /\ rxstate' = rxstate + 1
                            /\ UNCHANGED chk_mode
                       ELSE /\ rxstate' = RXSTATE_WAIT_STX
                            /\ chk_mode' = CSUM_SKIP
                            /\ UNCHANGED data_size
                    /\ UNCHANGED <<dbuf, pc, fileRxLocals, files, clock, tx, trace, cleanup>>
                 [] this_fun = CMD_FORMAT ->
                    /\ IF this_size = 0
                       THEN \E begin \in BOOLEAN, ghi \in GarbageU16, glo \in GarbageU16 :
                                Completed(PROCESS_Format(dbuf, files, clock, begin, ghi, glo))
                       ELSE Completed(Result(dbuf, files, clock, [out |-> <<>>, evs |-> <<>>]))
                    /\ UNCHANGED <<data_size, pc, fileRxLocals, cleanup>>
                 [] this_fun = CMD_FILE ->
                    /\ UNCHANGED data_size
                    /\ IF this_size >= 10
                       THEN \E alloc \in BOOLEAN, opened \in BOOLEAN :
                              /\ nsiz' = 0
                              /\ rx_size' = 0
                              /\ chk_pos' = 0
                              /\ UNCHANGED csum
                              /\ IF alloc
                                 THEN /\ rxfile' = opened
                                      /\ files' = IF opened THEN With(files, rxfile_name, <<>>)
                                                  ELSE files
                                      /\ rx_error' = ACK
                                      /\ pc' = "rx_nsiz"
                                      /\ UNCHANGED <<rxstate, chk_mode, dbuf, clock, tx,
                                                     trace, cleanup>>
                                 ELSE /\ rxfile' = FALSE
                                      /\ FileRX_Finish(NAK_FSERR, dbuf, files, nsiz)
                       ELSE /\ Completed(Result(dbuf, files, clock, [out |-> <<>>, evs |-> <<>>]))
                            /\ UNCHANGED <<pc, fileRxLocals, cleanup>>

\* case RXSTATE_WAIT_DATA
RX_WAIT_DATA ==
    /\ Feeding(RXSTATE_WAIT_DATA)
    /\ csum_hi' = CsumHi(Head(feed))
    /\ csum_lo' = CsumLo(Head(feed))
    /\ dbuf' = WrBuf(dbuf, data_size, Head(feed))
    /\ IF data_size + 2 = U8(this_size)
       THEN /\ rxstate' = rxstate + 1
            /\ chk_mode' = CSUM_SKIP
            /\ UNCHANGED data_size
       ELSE /\ data_size' = U8(data_size + 1)
            /\ UNCHANGED <<rxstate, chk_mode>>
    /\ body' = Append(body, Head(feed))
    /\ feed' = Tail(feed)
    /\ UNCHANGED <<streamRef, this_cmn, this_fun, this_size, pc, fileRxLocals, files,
                   clock, tx, trace, hdr, files0, cleanup>>

\* case RXSTATE_WAIT_CHK2_HI
RX_WAIT_CHK2_HI ==
    /\ Feeding(RXSTATE_WAIT_CHK2_HI)
    /\ csum_hi' = CsumHi(Head(feed))
    /\ csum_lo' = CsumLo(Head(feed))
    /\ IF Head(feed) = BYTEAT(CsumHi(Head(feed)), 8)
       THEN /\ rxstate' = rxstate + 1
            /\ UNCHANGED <<chk_mode, dbuf, files, clock, tx, trace>>
       ELSE Completed(Result(dbuf, files, clock, TX_NAK(NAK_CHKSUM)))
    /\ body' = Append(body, Head(feed))
    /\ feed' = Tail(feed)
    /\ UNCHANGED <<streamRef, this_cmn, this_fun, this_size, data_size, pc, fileRxLocals,
                   hdr, files0, cleanup>>

\* case RXSTATE_WAIT_CHK2_LO: the small-message handlers run here
RX_WAIT_CHK2_LO ==
    /\ Feeding(RXSTATE_WAIT_CHK2_LO)
    /\ csum_hi' = CsumHi(Head(feed))
    /\ csum_lo' = CsumLo(Head(feed))
    /\ IF Head(feed) = BYTEAT(CsumHi(Head(feed)), 0)
       THEN CASE this_fun = CMD_SET_TIME ->
                     Completed(PROCESS_SetTime(dbuf, files, clock))
              [] this_fun = CMD_LIST ->
                     \E begin \in BOOLEAN, ghi \in GarbageU16, glo \in GarbageU16 :
                        Completed(PROCESS_Listing(dbuf, files, clock, begin, ghi, glo))
              [] this_fun = CMD_REMOVE ->
                     \E begin \in BOOLEAN, rm \in BOOLEAN, ghi \in GarbageU16, glo \in GarbageU16 :
                        Completed(PROCESS_Remove(dbuf, files, clock, begin, rm, ghi, glo))
              [] this_fun = CMD_RENAME ->
                     \E begin \in BOOLEAN, rn \in BOOLEAN, oob \in OutsideStrings,
                        ghi \in GarbageU16, glo \in GarbageU16 :
                        Completed(PROCESS_Rename(dbuf, files, clock, begin, rn, oob, ghi, glo))
              [] OTHER ->
                     Completed(Result(dbuf, files, clock, [out |-> <<>>, evs |-> <<>>]))
       ELSE Completed(Result(dbuf, files, clock, TX_NAK(NAK_CHKSUM)))
    /\ body' = Append(body, Head(feed))
    /\ feed' = Tail(feed)
    /\ UNCHANGED <<streamRef, this_cmn, this_fun, this_size, data_size, pc, fileRxLocals,
                   hdr, files0, cleanup>>

(* ------------------------------------------------------------------ *)
(* void ESPSync::PROCESS_FileRX(void): one action per blocking read.    *)
(* _streamRef->readBytes(buf, n) delivers k <= n of the bytes the host  *)
(* has sent; k < n means the 50 ms timeout expired first.               *)
(* ------------------------------------------------------------------ *)
Take(k) == SubSeq(feed, 1, k)
Drop(k) == SubSeq(feed, k + 1, Len(feed))

\* "Get File Name Length"
FileRX_NameLen ==
    /\ pc = "rx_nsiz"
    /\ \E rxd \in 0 .. Min(1, Len(feed)) :
          /\ feed' = Drop(rxd)
          /\ body' = body \o Take(rxd)
          /\ nsiz' = IF rxd = 1 THEN Head(feed) ELSE nsiz
          /\ IF (rxd # 1) \/ (nsiz' > 0)
             THEN FileRX_Finish(NAK_FSIZERR, dbuf, files, nsiz)
             ELSE /\ pc' = "rx_name"
                  /\ UNCHANGED <<rx_error, rxstate, chk_mode, dbuf, files, clock, tx,
                                 trace, cleanup>>
    /\ UNCHANGED <<streamRef, csum_hi, csum_lo, this_cmn, this_fun, this_size, data_size,
                   rx_size, csum, chk_pos, rxfile, hdr, files0>>

\* "Get File Name and Date"
FileRX_NameDate ==
    /\ pc = "rx_name"
    /\ \E rxd \in 0 .. Min(nsiz + 6, Len(feed)) :
          /\ feed' = Drop(rxd)
          /\ body' = body \o Take(rxd)
          /\ IF rxd # nsiz + 6
             THEN FileRX_Finish(NAK_TIMEOUT, WrSeq(dbuf, 0, Take(rxd)), files, nsiz)
             ELSE /\ dbuf' = WrSeq(dbuf, 0, Take(rxd))
                  /\ pc' = "rx_data"
                  /\ UNCHANGED <<rx_error, rxstate, chk_mode, files, clock, tx, trace,
                                 cleanup>>
    /\ UNCHANGED <<streamRef, csum_hi, csum_lo, this_cmn, this_fun, this_size, data_size,
                   nsiz, rx_size, csum, chk_pos, rxfile, hdr, files0>>

\* the size of the next payload read: uint16_t rxbufsize
rxbufsize ==
    IF rx_size + PageSize > this_size THEN U16(this_size - rx_size) ELSE U16(PageSize)

\* one turn of the "Read and store File Data" loop; written is whether
\* rxfile.write stores the whole chunk
FileRX_Data ==
    /\ pc = "rx_data"
    /\ \E rxd \in 0 .. Min(rxbufsize, Len(feed)) :
          /\ feed' = Drop(rxd)
          /\ body' = body \o Take(rxd)
          /\ IF rxd = 0
             THEN /\ FileRX_Finish(NAK_TIMEOUT, dbuf, files, nsiz)
                  /\ UNCHANGED <<rx_size, csum>>
             ELSE \E written \in {w \in BOOLEAN : w => rxfile} :
                    IF written
                    THEN /\ \E ghi \in GarbageU16, glo \in GarbageU16 :
                               csum' = adler32_word(ghi, glo, feed[rxd])
                         /\ rx_size' = rx_size + rxd
                         /\ files' = With(files, rxfile_name, files[rxfile_name] \o Take(rxd))
                         /\ pc' = IF rx_size' < this_size - 4 THEN "rx_data" ELSE "rx_chk"
                         /\ UNCHANGED <<rx_error, rxstate, chk_mode, dbuf, clock, tx, trace,
                                        cleanup>>
                    ELSE /\ FileRX_Finish(NAK_FSERR, dbuf, files, nsiz)
                         /\ UNCHANGED <<rx_size, csum>>
    /\ UNCHANGED <<streamRef, csum_hi, csum_lo, this_cmn, this_fun, this_size, data_size,
                   nsiz, chk_pos, rxfile, hdr, files0>>

\* "Verify Checksum": the four one-byte reads, most significant byte first
FileRX_Checksum ==
    /\ pc = "rx_chk"
    /\ \E rxd \in 0 .. Min(1, Len(feed)) :
          /\ feed' = Drop(rxd)
          /\ body' = body \o Take(rxd)
          /\ IF rxd # 1
             THEN FileRX_Finish(NAK_TIMEOUT, dbuf, files, nsiz) /\ UNCHANGED chk_pos
             ELSE IF Head(feed) # Bytes32(csum)[chk_pos + 1]
             THEN FileRX_Finish(NAK_CHKSUM, dbuf, files, nsiz) /\ UNCHANGED chk_pos
             ELSE IF chk_pos = 3
             THEN FileRX_Finish(ACK, dbuf, files, nsiz) /\ UNCHANGED chk_pos
             ELSE /\ chk_pos' = chk_pos + 1
                  /\ UNCHANGED <<pc, rx_error, rxstate, chk_mode, dbuf, files, clock, tx,
                                 trace, cleanup>>
    /\ UNCHANGED <<streamRef, csum_hi, csum_lo, this_cmn, this_fun, this_size, data_size,
                   nsiz, rx_size, csum, rxfile, hdr, files0>>

ProcessByte ==
    \/ RX_WAIT_STX
    \/ RX_WAIT_CMN
    \/ RX_WAIT_FUN
    \/ RX_WAIT_SIZ_HI
    \/ RX_WAIT_SIZ_MD
    \/ RX_WAIT_SIZ_LO
    \/ RX_WAIT_CHK_HI
    \/ RX_WAIT_CHK_LO
    \/ RX_WAIT_DATA
    \/ RX_WAIT_CHK2_HI
    \/ RX_WAIT_CHK2_LO

PROCESS_FileRX ==
    \/ FileRX_NameLen
    \/ FileRX_NameDate
    \/ FileRX_Data
    \/ FileRX_Checksum

Next == setSerial \/ ProcessByte \/ PROCESS_FileRX

Spec == Init /\ [][Next]_vars

(* ------------------------------------------------------------------ *)
(* Vocabulary of the properties                                         *)
(* ------------------------------------------------------------------ *)
\* the 24-bit big-endian size a header h declares
DeclaredSize(h) == h[4] * 65536 + h[5] * 256 + h[6]
\* the per-command size bounds of the protocol
SizeInBounds(f, size) ==
    CASE f = CMD_SET_TIME -> size = 8
      [] f = CMD_LIST -> size = 3
      [] f = CMD_REMOVE -> size >= 3 /\ size <= TEMP_BUFFER_SIZE
      [] f = CMD_RENAME -> size >= 6 /\ size <= TEMP_BUFFER_SIZE
      [] f = CMD_FORMAT -> size = 0
      [] f = CMD_FILE -> size >= 10
      [] OTHER -> TRUE
\* the trace entry of a NAK reply with the given code
NakEv(code) == TxEv(NAK, code * 65536 + 42330)
\* everything the host sent after the last accepted header
Sent == body \o feed
\* a File-Receive has run and returned, and no later frame has started
FileRXEnded ==
    /\ pc = "idle"
    /\ Len(hdr) = 8
    /\ this_fun = CMD_FILE
    /\ rxstate = RXSTATE_WAIT_STX
    /\ trace # <<>>
\* a File-Receive is running or has returned
FileRXSeen == pc # "idle" \/ FileRXEnded
\* the small-message handler of function f is invoked in this step
HandlerRuns(f) ==
    /\ streamRef /\ pc = "idle" /\ feed # <<>>
    /\ rxstate = RXSTATE_WAIT_CHK2_LO
    /\ this_fun = f
    /\ Head(feed) = BYTEAT(csum_hi, 0)
\* the bytes _dbuf[from .. from+n-1]
BufBytes(from, n) == [i \in 1 .. n |-> RdBuf(dbuf, from + i - 1)]
\* every stored file but the temporary one is as it was when the header of
\* the upload was accepted
OthersUntouched ==
    \A n \in ((DOMAIN files0) \cup (DOMAIN files)) \ {TEMP_NAME} :
        n \in DOMAIN files0 /\ n \in DOMAIN files /\ files[n] = files0[n]

\* C1: a framing-level failure is silent: once a complete header declares a
\* size outside the bounds of its command, nothing has been transmitted for
\* it and the engine is back in WaitStart.
C1_FramingFailureSilent ==
    (Len(hdr) = 8 /\ ~SizeInBounds(hdr[3], DeclaredSize(hdr)))
        => (rxstate = RXSTATE_WAIT_STX /\ pc = "idle" /\ trace = <<>>)

\* C2: when the SetTime handler runs, in-range fields set the clock and
\* cause exactly one empty TIME_SET reply; any out-of-range field (day 0 and
\* month 0 included) causes exactly one NAK(FORMAT) and leaves the clock alone.
C2_SetTimeRanges ==
    [][HandlerRuns(CMD_SET_TIME) =>
         IF /\ dbuf[0] >= 1 /\ dbuf[0] <= 31
            /\ dbuf[1] >= 1 /\ dbuf[1] <= 12
            /\ dbuf[3] <= 23 /\ dbuf[4] <= 59 /\ dbuf[5] <= 59
         THEN /\ clock' = [tm_mday |-> dbuf[0], tm_mon |-> dbuf[1] - 1,
                            tm_year |-> 119 + dbuf[2], tm_hour |-> dbuf[3],
                            tm_min |-> dbuf[4], tm_sec |-> dbuf[5]]
              /\ trace' = trace \o <<SetTimeEv, TxEv(RPL_TIME_SET, 0)>>
         ELSE /\ clock' = clock
              /\ trace' = trace \o <<NakEv(NAK_FORMAT)>>]_vars

\* C3: an upload that the host sent completely (length byte, non-empty name
\* "a", timestamp, the payload 00 and its Adler-32 checksum 00 01 00 01) ends
\* with exactly one RECEIVED reply, the payload stored under the name and no
\* temporary file.
C3_UploadReceived ==
    (FileRXEnded /\ body # <<>> /\ DeclaredSize(hdr) = Len(FileBody(<<97>>))
        /\ Len(Sent) >= Len(FileBody(<<97>>))
        /\ SubSeq(Sent, 1, Len(FileBody(<<97>>))) = FileBody(<<97>>))
        => /\ trace = <<TxEv(RPL_RECEIVED, 12)>>
           /\ <<97>> \in DOMAIN files
           /\ files[<<97>>] = <<0>>
           /\ TEMP_NAME \notin DOMAIN files

\* C4 as stated: during and after a File-Receive a file stored under the
\* destination name, whatever that name is, is present and what it was
\* before the upload, unless the upload completed with RECEIVED.
C4_AnyDestinationIntact ==
    (FileRXSeen /\ Sent # <<>> /\ Len(Sent) >= 1 + Sent[1])
        => LET dest == SubSeq(Sent, 2, 1 + Sent[1])
           IN  \/ dest \in DOMAIN files0
                     => (dest \in DOMAIN files /\ files[dest] = files0[dest])
               \/ FileRXEnded /\ trace = <<TxEv(RPL_RECEIVED, 12)>>

\* C4 amended: during and after a File-Receive every stored file other than
\* the temporary file, so every destination other than the temporary name,
\* is present and unchanged unless the upload completed with RECEIVED; no
\* partially received data appears under any other name.
C4_DestinationIntact ==
    FileRXSeen =>
        \/ OthersUntouched
        \/ FileRXEnded /\ trace = <<TxEv(RPL_RECEIVED, 12)>>
C4_Witness ==
    /\ FileRXEnded
    /\ body = <<1>> /\ feed # <<>> /\ Head(feed) = 97
    /\ <<97>> \in DOMAIN files0
    /\ <<97>> \in DOMAIN files /\ files[<<97>>] = files0[<<97>>]
    /\ trace = <<NakEv(NAK_FSIZERR)>>

C6_StallIsTimeout ==
    (FileRXEnded /\ body # <<>>
        /\ Len(Sent) >= 7 + Sent[1] /\ Len(Sent) < DeclaredSize(hdr) - 4)
        => /\ trace = <<NakEv(NAK_TIMEOUT)>>
           /\ (TEMP_NAME \notin DOMAIN files \/ cleanup = "refused")
           /\ OthersUntouched

\* C7: once the 8 body bytes 05 'a' 'b' 'c' 'd' 'e' 00 00 of a REMOVE frame
\* of declared size 8 have been fed and no file "abcde" is stored, exactly
\* one NAK(FNOTF) has been sent and the storage is unchanged.
C7_RemoveAbsent ==
    (Len(hdr) = 8 /\ hdr[3] = CMD_REMOVE /\ DeclaredSize(hdr) = 8
        /\ body = <<5, 97, 98, 99, 100, 101, 0, 0>>
        /\ <<97, 98, 99, 100, 101>> \notin DOMAIN files0)
        => (trace = <<NakEv(NAK_FNOTF)>> /\ files = files0)

\* C8: when the Remove handler runs and the name carried after the length
\* byte is stored, either exactly that file is removed and REMOVED is sent,
\* or nothing is removed and NAK(FSERR) is sent.
C8_RemoveExisting ==
    [][(HandlerRuns(CMD_REMOVE) /\ BufBytes(1, dbuf[0]) \in DOMAIN files) =>
         \/ /\ files' = Without(files, BufBytes(1, dbuf[0]))
            /\ trace' = trace \o <<TxEv(RPL_REMOVED, 14)>>
         \/ /\ files' = files
            /\ trace' = trace \o <<NakEv(NAK_FSERR)>>]_vars

\* C9: when the Rename handler runs, the old name is stored and the new
\* name (the bytes after its own length byte) is stored too, no file is
\* touched and the reply is NAK(FEXISTS) (NAK(FSERR) if the storage cannot
\* be initialised).
C9_RenameOntoExisting ==
    [][(HandlerRuns(CMD_RENAME)
          /\ BufBytes(1, dbuf[0]) \in DOMAIN files
          /\ BufBytes(dbuf[0] + 2, RdBuf(dbuf, dbuf[0] + 1)) \in DOMAIN files) =>
         /\ files' = files
         /\ \/ trace' = trace \o <<NakEv(NAK_FEXISTS)>>
            \/ trace' = trace \o <<NakEv(NAK_FSERR)>>]_vars

\* C10: a complete FORMAT header of size 0 causes nothing (header checksum
\* rejected), or ACK, format, FORMATTED in that order, or a lone NAK(FSERR),
\* and the engine is back in WaitStart; a FORMAT header of any other size
\* causes no reply and no format.
C10_FormatOrder ==
    (Len(hdr) = 8 /\ hdr[3] = CMD_FORMAT) =>
        /\ rxstate = RXSTATE_WAIT_STX
        /\ IF DeclaredSize(hdr) = 0
           THEN trace \in {<<>>,
                           <<TxEv(ACK, 7679834), FormatEv, TxEv(RPL_FORMATED, 13)>>,
                           <<NakEv(NAK_FSERR)>>}
           ELSE trace = <<>> /\ files = files0

\* the 32-bit Adler-style fold of the protocol over a byte sequence, from
\* the state (lo, hi): lo = (lo + b) mod 65521, hi = (hi + lo) mod 65521
RECURSIVE AdlerFold(_, _, _)
AdlerFold(lo, hi, bytes) ==
    IF bytes = <<>> THEN [hi |-> hi, lo |-> lo]
    ELSE AdlerFold((lo + Head(bytes)) % 65521,
                   (hi + ((lo + Head(bytes)) % 65521)) % 65521, Tail(bytes))
\* its four bytes, most significant first, from the initial state (1, 0)
AdlerBytes(bytes) ==
    LET r == AdlerFold(1, 0, bytes)
    IN  <<r.hi \div 256, r.hi % 256, r.lo \div 256, r.lo % 256>>
\* the bytes written to the stream in this step
Written == SubSeq(tx', Len(tx) + 1, Len(tx'))

\* C11: when the Listing handler runs on a storage of n files it sends
\* NAK(FSERR) alone (storage unavailable) or an ACK and one LISTING frame
\* whose size field is 10 + n * entryWidth + 4, followed by exactly that many
\* bytes; with options 0 and n = 0 the last four bytes are the checksum of
\* the 10 global bytes.
C11_ListingFrame ==
    [][HandlerRuns(CMD_LIST) =>
         \/ trace' = trace \o <<NakEv(NAK_FSERR)>>
         \/ LET n == Cardinality(DOMAIN files)
                opts == (dbuf[0] \div 2) % 2
                width == MaxPathLength + 4 + 4 * opts
                msize == 10 + n * width + 4
            IN  /\ trace' = trace \o <<TxEv(ACK, 999 * 256 + 90), TxEv(RPL_LISTING, msize)>>
                /\ Len(Written) = 8 + 8 + msize
                /\ (n = 0 /\ opts = 0) =>
                      SubSeq(Written, 27, 30) = AdlerBytes(SubSeq(Written, 17, 26))]_vars

StartCsums == GarbageCsum \cup {0, 1}
\* the receiver, folding the tag, function and size bytes of the header h
\* from c0, finds the two checksum bytes of h equal to its accumulator
HeaderPasses(c0, h) ==
    LET e == TX_fold(c0, SubSeq(h, 2, 6))
    IN  h[7] = e \div 256 /\ h[8] = e % 256
\* the header in hdr was accepted and dispatched
HeaderAccepted ==
    /\ Len(hdr) = 8
    /\ \/ rxstate > RXSTATE_WAIT_CHK_LO
       \/ pc # "idle"
       \/ body # <<>>
       \/ trace # <<>>

\* C13: if the receiver accepts a header, then the header with any single
\* byte of its span (tag, function, size bytes) replaced by another value
\* and the same two checksum bytes does not pass the receiver's checksum
\* comparison.
C13_CorruptionRejected ==
    HeaderAccepted =>
        \A c0 \in StartCsums :
            HeaderPasses(c0, hdr) =>
                \A i \in 2 .. 6 : \A v \in 0 .. 255 :
                    v # hdr[i] => ~HeaderPasses(c0, [hdr EXCEPT ![i] = v])

\* the reference dual-lane fold: sum1 = (sum1 + byte) mod 256,
\* sum2 = (sum2 + sum1) mod 256
RECURSIVE FletcherFold(_, _, _)
FletcherFold(sum1, sum2, bytes) ==
    IF bytes = <<>> THEN <<sum2, sum1>>
    ELSE FletcherFold((sum1 + Head(bytes)) % 256,
                      (sum2 + ((sum1 + Head(bytes)) % 256)) % 256, Tail(bytes))
\* the two bytes of (sum2 << 8) | sum1, high byte first, from a zero state
FletcherBytes(bytes) == FletcherFold(0, 0, bytes)
SmallCommands == {CMD_SET_TIME, CMD_LIST, CMD_REMOVE, CMD_RENAME}
\* the body of a small command was entered after its header was validated,
\* the host sent at least the declared number of bytes, and all it sent has
\* been processed
SmallMessageDone ==
    /\ Len(hdr) = 8 /\ hdr[3] \in SmallCommands
    /\ hdr[4] = 0 /\ hdr[5] = 0 /\ SizeInBounds(hdr[3], hdr[6])
    /\ body # <<>> /\ Len(body) >= hdr[6]
    /\ pc = "idle" /\ feed = <<>>

\* C14: after a validated small-command header declaring S bytes, the
\* handler has run if and only if bytes S-1 and S after the header are the
\* reference 16-bit checksum of the S-2 body bytes before them; otherwise
\* the one reply is NAK(CHKSUM), clock and storage are as they were, and
\* the engine is in WaitStart.
C14_BodyChecksumGate ==
    SmallMessageDone =>
        LET S == hdr[6]
        IN  IF SubSeq(body, S - 1, S) = FletcherBytes(SubSeq(body, 1, S - 2))
            THEN trace # <<>> /\ trace[1] # NakEv(NAK_CHKSUM)
            ELSE /\ trace = <<NakEv(NAK_CHKSUM)>>
                 /\ files = files0
                 /\ clock.tm_mday = 0 /\ clock.tm_year = 0
                 /\ rxstate = RXSTATE_WAIT_STX

\* the body of a small command is being received or has been received
\* after its header was validated
SmallMessageEntered ==
    /\ Len(hdr) = 8 /\ hdr[3] \in SmallCommands
    /\ hdr[4] = 0 /\ hdr[5] = 0 /\ SizeInBounds(hdr[3], hdr[6])
    /\ body # <<>>

\* C15: of a small command declaring S bytes the engine consumes exactly S
\* bytes after the header: it never takes more than S bytes into the
\* message, it awaits the first checksum byte after S-2 stored body bytes,
\* and once S bytes are consumed it is in WaitStart, where the next byte is
\* examined as the possible start of a frame.
C15_ConsumesDeclaredSize ==
    SmallMessageEntered =>
        LET S == hdr[6]
        IN  /\ Len(body) <= S
            /\ rxstate = RXSTATE_WAIT_CHK2_HI => Len(body) = S - 2
            /\ Len(body) = S => rxstate = RXSTATE_WAIT_STX

\* the header in hdr was dropped without a reply and without a body byte
SilentlyAborted ==
    /\ rxstate = RXSTATE_WAIT_STX /\ pc = "idle"
    /\ trace = <<>> /\ body = <<>>

\* C16: dispatch uses the 24-bit big-endian size of the header: while the
\* header waits for its checksum bytes _this_size is that value; a REMOVE
\* or RENAME header declaring more than 70, a SET_TIME header not declaring
\* 8 and a LIST header not declaring 3 are dropped silently; a FILE header
\* is handed to File-Receive only if it declares at least 10, and always if
\* it declares at least 10 and its checksum bytes pass.
C16_DispatchSize24 ==
    /\ (Len(hdr) \in {6, 7} /\ rxstate \in {RXSTATE_WAIT_CHK_HI, RXSTATE_WAIT_CHK_LO})
          => this_size = DeclaredSize(hdr)
    /\ Len(hdr) = 8 =>
          LET f == hdr[3]
              size == DeclaredSize(hdr)
          IN  /\ (f \in {CMD_REMOVE, CMD_RENAME} /\ size > TEMP_BUFFER_SIZE) => SilentlyAborted
              /\ (f = CMD_SET_TIME /\ size # 8) => SilentlyAborted
              /\ (f = CMD_LIST /\ size # 3) => SilentlyAborted
              /\ (f = CMD_FILE /\ FileRXSeen) => size >= 10
              /\ (f = CMD_FILE /\ size >= 10 /\ \A c0 \in StartCsums : HeaderPasses(c0, hdr))
                    => FileRXSeen

\* C17: the 16-bit checksum routine is the reference dual-lane fold: the
\* two checksum bytes of the first header transmitted are the reference
\* checksum, from a zero state, of the six bytes written before them, and
\* the accumulator the receiver compares the header checksum bytes with is
\* the reference fold of the tag, function and size bytes from the value
\* the accumulator started with.
C17_FletcherReference ==
    /\ Len(tx) >= 8 => SubSeq(tx, 7, 8) = FletcherBytes(SubSeq(tx, 1, 6))
    /\ (Len(hdr) = 6 /\ rxstate = RXSTATE_WAIT_CHK_HI) =>
          \E c0 \in StartCsums :
             <<csum_hi \div 256, csum_hi % 256>>
                = FletcherFold(c0 % 256, c0 \div 256, SubSeq(hdr, 2, 6))

\* the replies sent with TX_DataBuf
DataBufReplies == {RPL_FORMATED, RPL_REMOVED, RPL_RECEIVED}
\* the last reply header sent in this step is of a TX_DataBuf reply
DataBufSent ==
    /\ Len(trace') > Len(trace)
    /\ trace'[Len(trace')].ev = "tx"
    /\ trace'[Len(trace')].fun \in DataBufReplies
\* the frame of the last reply sent in this step: its header, and the bytes
\* written after it
LastFrame ==
    SubSeq(Written, Len(Written) - trace'[Len(trace')].size - 7, Len(Written))

\* C18: a reply sent with TX_DataBuf has the size field len(data) + 4 in
\* its header, and the four bytes after its data are the reference Adler
\* checksum of the data, folded from (1, 0), most significant byte first.
C18_DataBufFrame ==
    [][DataBufSent =>
         LET n == trace'[Len(trace')].size
         IN  /\ Len(Written) >= n + 8
             /\ SubSeq(LastFrame, 1, 6) = <<STX, U8(TX_CMN(this_cmn)), trace'[Len(trace')].fun, 0, 0, n>>
             /\ n >= 4
             /\ SubSeq(LastFrame, n + 5, n + 8) = AdlerBytes(SubSeq(LastFrame, 9, n + 4))]_vars

(* ------------------------------------------------------------------ *)
(* TX_ACK on its own: the engine calls TX_ACK(timeout) with timeouts    *)
(* drawn from AckTimeouts; each call is recorded in trace in front of   *)
(* the header it transmits                                              *)
(* ------------------------------------------------------------------ *)
AckTimeouts ==
    {1, 2, 256, 1000, 30000, 65535, 65536, 65537, 65538, 131072, 16777216, 2147483647}
\* how many calls a behaviour makes
MaxAckCalls == 2
AckCallEv(timeout) == [ev |-> "TX_ACK", fun |-> ACK, size |-> timeout]
IsAckCall(e) == e.ev = "TX_ACK"
AckInit ==
    /\ streamRef \in BOOLEAN
    /\ rxstate = RXSTATE_WAIT_STX
    /\ chk_mode = CSUM_SKIP
    /\ csum_hi = 0
    /\ csum_lo = 0
    /\ this_cmn \in {0, CMN_MAX}
    /\ this_fun = ACK
    /\ this_size = 0
    /\ data_size = 0
    /\ dbuf = [i \in BufIdx |-> 0]
    /\ pc = "idle"
    /\ rx_error = ACK
    /\ nsiz = 0
    /\ rx_size = 0
    /\ csum = W32(0, 0)
    /\ chk_pos = 0
    /\ rxfile = FALSE
    /\ files = NoFiles
    /\ clock = [tm_mday |-> 0, tm_mon |-> 0, tm_year |-> 0,
                 tm_hour |-> 0, tm_min |-> 0, tm_sec |-> 0]
    /\ feed = <<>>
    /\ tx = <<>>
    /\ trace = <<>>
    /\ hdr = <<>>
    /\ body = <<>>
    /\ files0 = files
    /\ cleanup = "none"
Call_TX_ACK ==
    /\ Len(SelectSeq(trace, IsAckCall)) < MaxAckCalls
    /\ \E timeout \in AckTimeouts :
          LET r == TX_ACK(timeout)
          IN  /\ tx' = tx \o r.out
              /\ trace' = trace \o <<AckCallEv(timeout)>> \o r.evs
    /\ UNCHANGED <<streamRef, rxstate, chk_mode, csum_hi, csum_lo, this_cmn, this_fun,
                   this_size, data_size, dbuf, pc, rx_error, nsiz, rx_size, csum, chk_pos,
                   rxfile, files, clock, feed, hdr, body, files0, cleanup>>
AckNext == Call_TX_ACK
AckSpec == AckInit /\ [][AckNext]_vars

\* the timeout of the k-th call of TX_ACK and the size field (three bytes)
\* of the k-th header transmitted
AckTimeoutOf(k) == trace[2 * k - 1].size
AckFieldOf(k) == SubSeq(tx, 8 * k - 4, 8 * k - 2)
AckEncodedOf(k) == AckFieldOf(k)[1] * 256 + AckFieldOf(k)[2]

\* C19: with the stream attached every call TX_ACK(t), t >= 1, transmits
\* one ACK header whose size field has 0x5A in its low byte and, in its top
\* two bytes, t - 1 for t <= 65536 and 0xFFFF for t > 65536; so the encoded
\* timeout of a call with a larger t is never smaller.  Without a stream
\* nothing is transmitted.
C19_AckEncoding ==
    IF streamRef
    THEN /\ Len(trace) % 2 = 0
         /\ Len(tx) = 4 * Len(trace)
         /\ \A k \in 1 .. (Len(trace) \div 2) :
               /\ IsAckCall(trace[2 * k - 1])
               /\ trace[2 * k].ev = "tx" /\ trace[2 * k].fun = ACK
               /\ tx[8 * k - 7] = STX /\ tx[8 * k - 5] = ACK
               /\ AckFieldOf(k)[3] = 90
               /\ AckEncodedOf(k) = IF AckTimeoutOf(k) <= 65536
                                    THEN AckTimeoutOf(k) - 1 ELSE 65535
         /\ \A j, k \in 1 .. (Len(trace) \div 2) :
               AckTimeoutOf(j) <= AckTimeoutOf(k) => AckEncodedOf(j) <= AckEncodedOf(k)
    ELSE tx = <<>>
\* two calls have been made with the stream attached, the first with a
\* timeout in range, the second with a timeout above 65536
C19_Witness ==
    /\ streamRef
    /\ Len(trace) = 4 /\ Len(tx) = 16
    /\ trace[1] = AckCallEv(65536) /\ trace[3] = AckCallEv(65537)
    /\ AckFieldOf(1) = <<255, 255, 90>> /\ AckFieldOf(2) = <<255, 255, 90>>

\* the events this step appends to trace
NewEvents == SubSeq(trace', Len(trace) + 1, Len(trace'))
\* the bytes of the frame a transmit event stands for: ACK and NAK are bare
\* headers, the size field of every other reply counts the bytes after it
FrameLen(e) == IF e.fun \in {ACK, NAK} THEN 8 ELSE 8 + e.size
\* w, from position pos on, is exactly the frames of the transmit events
\* evs, each starting with the sentinel and the tag byte tag
RECURSIVE FramesTagged(_, _, _, _)
FramesTagged(w, pos, evs, tag) ==
    IF evs = <<>> THEN pos = Len(w) + 1
    ELSE IF Head(evs).ev # "tx" THEN FramesTagged(w, pos, Tail(evs), tag)
    ELSE /\ pos + 7 <= Len(w)
         /\ w[pos] = STX
         /\ w[pos + 1] = tag
         /\ w[pos + 2] = Head(evs).fun
         /\ FramesTagged(w, pos + FrameLen(Head(evs)), Tail(evs), tag)

\* C20: whenever the engine transmits, the header it is answering is
\* complete and passed its checksum, and every frame transmitted in the
\* step carries the tag byte of that header minus 0x20 plus 0x40, a value
\* in 0x40 .. 0x5F; the tag of an earlier, rejected header is not used.
C20_ReplyTag ==
    [][tx' # tx =>
         /\ Len(hdr') = 8
         /\ \E c0 \in StartCsums : HeaderPasses(c0, hdr')
         /\ hdr'[2] - 32 + 64 >= 64 /\ hdr'[2] - 32 + 64 <= 95
         /\ FramesTagged(Written, 1, NewEvents, hdr'[2] - 32 + 64)]_vars
\* a header with tag 0x3F was rejected, the LIST frame with tag 0x25 after
\* it was accepted, and the two frames of the answer carry the tag 0x45
C20_Witness ==
    /\ Len(hdr) = 8 /\ hdr[2] = 37 /\ hdr[3] = CMD_LIST
    /\ rxstate = RXSTATE_WAIT_STX
    /\ Len(trace) = 2
    /\ Len(tx) > 16 /\ tx[2] = 69 /\ tx[10] = 69

\* C21: every index used on the small-message buffer lies in
\* 0 .. TEMP_BUFFER_SIZE - 1: the index WAIT_DATA stores the next body byte
\* at, and the indexes the Remove and Rename handlers load from and store
\* to, whatever the name-length byte of the body is.
C21_BufferIndexes ==
    /\ Feeding(RXSTATE_WAIT_DATA) => data_size \in BufIdx
    /\ (HandlerRuns(CMD_REMOVE) \/ HandlerRuns(CMD_RENAME))
          => NameIndexes(dbuf, this_size) \subseteq BufIdx

\* C22: a File-Receive for a header declaring S bytes takes at most S bytes
\* from the transport, and a payload read never asks for bytes beyond the
\* S - 4 that precede the trailing checksum.
C22_FileRXWithinDeclared ==
    (Len(hdr) = 8 /\ hdr[3] = CMD_FILE /\ hdr[4] = 0 /\ FileRXSeen) =>
        /\ Len(body) <= DeclaredSize(hdr)
        /\ pc = "rx_data" => Len(body) + rxbufsize <= DeclaredSize(hdr) - 4

\* the engine is inside a header: it has taken the sentinel and the bytes
\* after it up to the one it waits for (File-Receive runs with the receive
\* state still at the low checksum byte)
InHeader ==
    pc = "idle" /\ rxstate >= RXSTATE_WAIT_CMN /\ rxstate <= RXSTATE_WAIT_CHK_LO
\* the span bytes (tag, function, size) of the header taken so far
SpanSoFar == SubSeq(hdr, 2, Min(Len(hdr), 6))

HandlerFrames ==
    {OkHdr(CMD_FILE, 12) \o b : b \in Prefixes(FileBody(<<>>))}
    \cup {OkHdr(CMD_FILE, 12) \o FileBody(<<>>) \o Zeros(MaxTrail),
          OkHdr(CMD_FILE, 13) \o FileBody(<<97>>),
          OkHdr(CMD_FORMAT, 0), OkHdr(ACK, 90),
          OkHdr(CMD_SET_TIME, 8) \o <<1, 12, 0, 23, 59, 59>> \o <<0, 0, 0>>,
          OkHdr(CMD_LIST, 3) \o <<2, 0, 0, 0>>,
          OkHdr(CMD_REMOVE, 8) \o <<5, 97, 98, 99, 100, 101>> \o <<0, 0, 0>>,
          OkHdr(CMD_RENAME, 6) \o <<1, 97, 1, 98>> \o <<0, 0, 0>>}
LiveInit ==
    /\ Init
    /\ feed \in HandlerFrames
    /\ csum_hi = 0
    /\ dbuf[0] = 0
    /\ files \in {NoFiles, [n \in {<<97>>, TEMP_NAME} |-> IF n = <<97>> THEN <<7>> ELSE <<9>>]}
LiveSpec == LiveInit /\ [][Next]_vars /\ WF_vars(PROCESS_FileRX)

\* the engine is back in WaitStart with checksum accumulation switched off
BackInWaitStart == rxstate' = RXSTATE_WAIT_STX /\ chk_mode' = CSUM_SKIP /\ pc' = "idle"
\* this step is the call of ProcessByte that dispatches a handler which
\* returns within the call
DispatchReturns ==
    /\ streamRef /\ pc = "idle" /\ feed # <<>>
    /\ \/ rxstate = RXSTATE_WAIT_CHK2_LO
       \/ /\ rxstate = RXSTATE_WAIT_CHK_LO
          /\ Head(feed) = csum_hi % 256
          /\ this_fun \in {ACK, CMD_FORMAT}

\* C24: every handler invocation ends with the engine in WaitStart and
\* checksum accumulation off.  A handler dispatched inside one call of
\* ProcessByte leaves that state when the call returns.  Every payload read
\* of a File-Receive that is followed by another one has stored at least
\* one more byte, and fewer than _this_size - 4 bytes are stored while the
\* loop runs, so the loop makes finitely many reads; nothing is transmitted
\* while the File-Receive reads, and when it returns it has sent exactly
\* one reply, RECEIVED or a NAK.  Every File-Receive that has started does
\* return.
C24_HandlersReturn ==
    /\ [][/\ DispatchReturns => BackInWaitStart
          /\ (pc = "rx_data" /\ pc' = "rx_data")
                => (rx_size' > rx_size /\ rx_size' < this_size - 4)
          /\ (pc' # "idle") => (trace' = trace /\ tx' = tx)
          /\ (pc # "idle" /\ pc' = "idle")
                => /\ BackInWaitStart
                   /\ Len(trace') = Len(trace) + 1
                   /\ trace'[Len(trace')].ev = "tx"
                   /\ trace'[Len(trace')].fun \in {NAK, RPL_RECEIVED}]_vars
    /\ (pc # "idle") ~> (pc = "idle" /\ rxstate = RXSTATE_WAIT_STX /\ chk_mode = CSUM_SKIP)
\* a File-Receive has returned after more than one payload read (more
\* bytes are stored than one read delivers) and has sent its one reply
C24_Witness ==
    /\ FileRXEnded
    /\ rx_size > PageSize
    /\ chk_mode = CSUM_SKIP
    /\ Len(trace) = 1 /\ trace[1].fun = NAK

====
